---- MODULE Spec2Model ----
(***************************************************************************)
(* Verification model of mkessy_website: the Tailwind styling              *)
(* configuration (tailwind.config.js) and the code examples of the three   *)
(* posts that follow it in the source (the fp-ts-routing router, the       *)
(* Option fold and the TaskEither built by tryCatchK).                     *)
(*                                                                         *)
(* JavaScript objects are functions from property names to values, arrays  *)
(* are sequences, strings that the code takes apart are sequences of       *)
(* one-character strings.  Each example has its own specification; the     *)
(* variables of the other examples stay at their initial value.            *)
(***************************************************************************)
EXTENDS Integers, Sequences, FiniteSets, TLC

VARIABLES
    exports,      \* module.exports of tailwind.config.js
    loaded,       \* the module body has been evaluated
    reads,        \* property names the build tool has read, in order
    opc,          \* Option example: position of the script
    newUsers,     \* Option example: the awaited Option<User[]>
    calls,        \* Option example: handler invocations, in order
    uploaded,     \* Option example: arguments of uploadUserBio, in order
    foldResult,   \* Option example: value of the fold(...) expression
    tpc,          \* TaskEither example: position of the script
    fPromise,     \* TaskEither example: the promise returned by f
    taskPromise,  \* TaskEither example: the promise returned by the task
    usersEither,  \* TaskEither example: the awaited Either
    teResult,     \* TaskEither example: value of the fold(...) expression
    teUploaded,   \* TaskEither example: arguments of uploadUserBio, in order
    rpc,          \* router example: position of the script
    path,         \* router example: the string given to parseLocation
    location      \* router example: the Location it returned

configVars == <<exports, loaded, reads>>
optionVars == <<opc, newUsers, calls, uploaded, foldResult>>
taskVars == <<tpc, fPromise, taskPromise, usersEither, teResult, teUploaded>>

routerVars == <<rpc, path, location>>

vars == <<exports, loaded, reads,
          opc, newUsers, calls, uploaded, foldResult,
          tpc, fPromise, taskPromise, usersEither, teResult, teUploaded,
          rpc, path, location>>

\* JavaScript's null and undefined, and a variable not yet assigned.
Null == "<null>"
Undefined == "<undefined>"
Pending == "<pending>"

\* The empty object literal {}.
EmptyObject == [k \in {} |-> {}]

\* module.exports before the module body runs: Node's empty exports object.
IdleConfig ==
    /\ exports = EmptyObject
    /\ loaded = FALSE
    /\ reads = << >>

\* The Option example before its script starts.
IdleOption ==
    /\ opc = "await"
    /\ newUsers = Pending
    /\ calls = << >>
    /\ uploaded = << >>
    /\ foldResult = Pending

\* A promise is its state and, once settled, its value or reason.
NoPromise == [state |-> "none", value |-> Undefined]
PendingPromise == [state |-> "pending", value |-> Undefined]
Fulfilled(v) == [state |-> "fulfilled", value |-> v]
Rejected(r) == [state |-> "rejected", value |-> r]

\* The TaskEither example before its script starts.
IdleTask ==
    /\ tpc = "start"
    /\ fPromise = NoPromise
    /\ taskPromise = NoPromise
    /\ usersEither = Pending
    /\ teResult = Pending
    /\ teUploaded = << >>

\* The router example before parseLocation is called.
IdleRouter ==
    /\ rpc = "start"
    /\ path = Pending
    /\ location = Pending

\* Largest number of property reads by the build tool that is explored.
MaxReads == 3

(***************************************************************************)
(* tailwind.config.js                                                      *)
(***************************************************************************)

\* What require(name) evaluates to: a reference to the named external module.
require(name) == [module |-> name]

purgeDup ==
    << "./_includes/**/*.html",
       "./_layouts/**/*.html",
       "./_posts/*.md",
       "./_posts/*.md" >>

purge ==
    << "./_includes/**/*.html",
       "./_layouts/**/*.html",
       "./_posts/*.md",
       "./*.html" >>

darkModeOn == TRUE

darkMode == FALSE

themeExtraShade ==
    [ colors |->
        [ curiosity |->
            [ lightest |-> "#EFFFCD",
              light    |-> "#DCE9BE",
              dirt     |-> "#555152",
              magenta  |-> "#2E2633",
              red      |-> "#99173C",
              blue     |-> "#0000FF" ] ],
      minWidth |-> [ full |-> "640px" ] ]

theme ==
    [ colors |->
        [ curiosity |->
            [ lightest |-> "#EFFFCD",
              light    |-> "#DCE9BE",
              dirt     |-> "#555152",
              magenta  |-> "#2E2633",
              red      |-> "#99173C" ] ],
      minWidth |-> [ full |-> "640px" ] ]

variantsExtend == [ opacity |-> <<"responsive", "hover">> ]

variants == EmptyObject

pluginsNone == << >>

plugins == << require("@tailwindcss/typography") >>

\* The object literal assigned to module.exports.
ModuleExports ==
    [ purge    |-> purge,
      darkMode |-> darkMode,
      theme    |-> theme,
      variants |-> variants,
      plugins  |-> plugins ]

\* Evaluation of the module body: the one assignment to module.exports.
Load ==
    /\ ~loaded
    /\ exports' = ModuleExports
    /\ loaded' = TRUE
    /\ UNCHANGED <<reads, optionVars, taskVars, routerVars>>

\* A read that, as a side effect, removes the purge list it has just read.
ReadAndClear(k) ==
    /\ loaded
    /\ Len(reads) < MaxReads
    /\ k \in DOMAIN exports
    /\ reads' = Append(reads, k)
    /\ exports' = [exports EXCEPT !.purge = << >>]
    /\ UNCHANGED <<loaded, optionVars, taskVars, routerVars>>

\* The build tool reads one property of the loaded configuration.  The file
\* defines no function or setter, so a read leaves the object as it is.
Read(k) ==
    /\ loaded
    /\ Len(reads) < MaxReads
    /\ k \in DOMAIN exports
    /\ reads' = Append(reads, k)
    /\ UNCHANGED <<exports, loaded, optionVars, taskVars, routerVars>>

ConfigKeys == {"purge", "darkMode", "theme", "variants", "plugins"}

InitConfig ==
    /\ IdleConfig
    /\ IdleOption
    /\ IdleTask
    /\ IdleRouter

NextConfig ==
    \/ Load
    \/ \E k \in ConfigKeys : Read(k)

SpecConfig == InitConfig /\ [][NextConfig]_vars

LastRead == IF reads = << >> THEN "" ELSE reads[Len(reads)]

\* C1: once the configuration is loaded no step changes it: purge, darkMode,
\* theme, variants and plugins keep the values they had at load time.
ConfigIsStatic ==
    [][loaded => (/\ exports'.purge = exports.purge
                  /\ exports'.darkMode = exports.darkMode
                  /\ exports'.theme = exports.theme
                  /\ exports'.variants = exports.variants
                  /\ exports'.plugins = exports.plugins
                  /\ DOMAIN exports' = DOMAIN exports)]_vars

ConfigReadManyTimes ==
    /\ loaded
    /\ Len(reads) = MaxReads
    /\ \A k \in ConfigKeys : k \in DOMAIN exports

ShadeNames == {"lightest", "light", "dirt", "magenta", "red"}

\* C2: the loaded theme has exactly one palette, curiosity, with exactly the
\* five shades lightest, light, dirt, magenta, red and their hex strings, and
\* minWidth has exactly the one token full = 640px.
ThemeTokens ==
    loaded =>
        /\ DOMAIN exports.theme.colors = {"curiosity"}
        /\ DOMAIN exports.theme.colors.curiosity = ShadeNames
        /\ exports.theme.colors.curiosity.lightest = "#EFFFCD"
        /\ exports.theme.colors.curiosity.light = "#DCE9BE"
        /\ exports.theme.colors.curiosity.dirt = "#555152"
        /\ exports.theme.colors.curiosity.magenta = "#2E2633"
        /\ exports.theme.colors.curiosity.red = "#99173C"
        /\ DOMAIN exports.theme.minWidth = {"full"}
        /\ exports.theme.minWidth.full = "640px"

ThemeWasRead == loaded /\ LastRead = "theme"

\* C3: purge is the list of exactly four glob strings, in source order, every
\* element a string and no pattern twice.
PurgeList ==
    loaded =>
        /\ Len(exports.purge) = 4
        /\ exports.purge[1] = "./_includes/**/*.html"
        /\ exports.purge[2] = "./_layouts/**/*.html"
        /\ exports.purge[3] = "./_posts/*.md"
        /\ exports.purge[4] = "./*.html"
        /\ \A i \in 1..Len(exports.purge) : exports.purge[i] \in STRING
        /\ \A i, j \in 1..Len(exports.purge) :
               exports.purge[i] = exports.purge[j] => i = j

PurgeWasRead == loaded /\ LastRead = "purge"

\* C4: darkMode is a boolean and it is false.
DarkModeDisabled ==
    loaded => (exports.darkMode \in BOOLEAN /\ exports.darkMode = FALSE)

DarkModeWasRead == loaded /\ LastRead = "darkMode"

\* C5: variants is the empty object: it has no property, so no utility has
\* a variant override.
VariantsEmpty ==
    loaded => DOMAIN exports.variants = {}

VariantsWasRead == loaded /\ LastRead = "variants"

\* C6: plugins is a list of exactly one element, the reference to the
\* @tailwindcss/typography module.
PluginsTypographyOnly ==
    loaded =>
        /\ Len(exports.plugins) = 1
        /\ exports.plugins[1] = [module |-> "@tailwindcss/typography"]

PluginsWasRead == loaded /\ LastRead = "plugins"

(***************************************************************************)
(* Option example (second post)                                            *)
(***************************************************************************)

\* Bounds of the Option example: user ids 1..MaxId, at most MaxUsers users.
MaxId == 2
MaxUsers == 3

Bios == {Null, "bio"}

\* interface User { id; name; bio }
User == [id : 1..MaxId, name : {"user"}, bio : Bios]

UserLists == UNION {[1..n -> User] : n \in 0..MaxUsers}

none == [type |-> "None"]

some(value) == [type |-> "Some", value |-> value]

\* Option<User[]>
OptionUsers == {none} \cup {some(us) : us \in UserLists}

\* A call of a handler: the handler and its arguments.
Call(handler, args) == [handler |-> handler, args |-> args]

\* The world after a handler was entered: the call is in the call log.
Called(w, handler, args) ==
    [w EXCEPT !.calls = Append(@, Call(handler, args))]

\* () => 'There are no users!'
onNoneUsers(w) ==
    [ret |-> "There are no users!", w |-> Called(w, "onNone", << >>)]

RECURSIVE UploadBios(_, _)
\* for (const newUser of users) if (newUser.bio != null) uploadUserBio(newUser.bio)
UploadBios(users, up) ==
    IF users = << >> THEN up
    ELSE UploadBios(Tail(users),
                    IF Head(users).bio # Null THEN Append(up, Head(users).bio)
                    ELSE up)

\* (users) => { for (...) {...} }: a block body without return
onSomeUsers(users, w) ==
    [ret |-> Undefined,
     w   |-> [Called(w, "onSome", <<users>>) EXCEPT
                 !.uploaded = UploadBios(users, @)]]

\* The handlers given to fold in the example, by name.
Invoke(call, w) ==
    IF call.handler = "onNone" THEN onNoneUsers(w)
    ELSE onSomeUsers(call.args[1], w)

RECURSIVE RunCalls(_, _)
\* The calls made in order; the value is that of the last one.
RunCalls(cs, r) ==
    IF cs = << >> THEN r ELSE RunCalls(Tail(cs), Invoke(Head(cs), r.w))

\* A fold that evaluates the None branch before it looks at fa.
foldEager(fa, onNone, onSome) ==
    IF fa.type = "None" THEN <<Call(onNone, << >>)>>
    ELSE <<Call(onNone, << >>), Call(onSome, <<fa.value>>)>>

\* fa.type === 'None' ? onNone() : onSome(fa.value): the handler calls that
\* fold makes; its value is the value of the call.
fold(fa, onNone, onSome) ==
    IF fa.type = "None" THEN <<Call(onNone, << >>)>>
    ELSE <<Call(onSome, <<fa.value>>)>>

\* const newUsers = await fetchUsersFromAPI()
AwaitUsers(o) ==
    /\ opc = "await"
    /\ newUsers' = o
    /\ opc' = "fold"
    /\ UNCHANGED <<calls, uploaded, foldResult, configVars, taskVars, routerVars>>

\* fold(newUsers, () => ..., (users) => {...})
FoldUsers ==
    /\ opc = "fold"
    /\ LET r == RunCalls(fold(newUsers, "onNone", "onSome"),
                         [ret |-> Undefined,
                          w   |-> [calls |-> calls, uploaded |-> uploaded]])
       IN  /\ foldResult' = r.ret
           /\ calls' = r.w.calls
           /\ uploaded' = r.w.uploaded
    /\ opc' = "done"
    /\ UNCHANGED <<newUsers, configVars, taskVars, routerVars>>

InitOption ==
    /\ IdleConfig
    /\ IdleOption
    /\ IdleTask
    /\ IdleRouter

NextOption ==
    \/ \E o \in OptionUsers : AwaitUsers(o)
    \/ FoldUsers

SpecOption == InitOption /\ [][NextOption]_vars

\* C10: fold invokes exactly one handler and returns its result: onNone()
\* for None, onSome(value) with the wrapped value for Some(value); the other
\* handler is not invoked.
FoldCallsOneHandler ==
    opc = "done" =>
        /\ Len(calls) = 1
        /\ newUsers.type = "None" =>
               /\ calls[1] = [handler |-> "onNone", args |-> << >>]
               /\ foldResult = "There are no users!"
        /\ newUsers.type = "Some" =>
               /\ calls[1] = [handler |-> "onSome", args |-> <<newUsers.value>>]
               /\ foldResult = Undefined

FoldedSomeWithUpload ==
    /\ opc = "done"
    /\ newUsers.type = "Some"
    /\ Len(newUsers.value) = 2
    /\ uploaded = <<"bio">>

(***************************************************************************)
(* Task / TaskEither example (third post)                                  *)
(***************************************************************************)

\* Rejection reasons of the promise returned by f: HTTP error status codes.
Reasons == {400, 404, 500}

\* Errors f may throw synchronously instead of returning a promise.
Thrown == {"TypeError"}

left(l) == [type |-> "Left", left |-> l]

right(a) == [type |-> "Right", right |-> a]

DigitChars == <<"0", "1", "2", "3", "4", "5", "6", "7", "8", "9">>

RECURSIVE StringOfNumber(_)
\* String(n) for a non-negative integer n: its decimal digits.
StringOfNumber(n) ==
    IF n < 10 THEN <<DigitChars[n + 1]>>
    ELSE Append(StringOfNumber(n \div 10), DigitChars[(n % 10) + 1])

\* (reason: unknown) => String(reason), as the function of its argument
onRejectedString == [reason \in Reasons |-> StringOfNumber(reason)]

\* A wrapper that hands the rejection of f's promise on to the caller.
tryCatchKPassThrough(p, onRejected) ==
    IF p.state = "fulfilled"
    THEN Fulfilled(right(p.value))
    ELSE Rejected(p.value)

\* tryCatchK(f, onRejected): the promise of the task once the promise p
\* returned by f has settled.  It has only a resolve path: a rejection of p
\* is stored in a Left.
tryCatchK(p, onRejected) ==
    IF p.state = "fulfilled"
    THEN Fulfilled(right(p.value))
    ELSE Fulfilled(left(onRejected[p.value]))

\* (error: string) => `Something went wrong ${error}!`
onLeftMessage(error) == <<"Something went wrong ">> \o error \o <<"!">>

\* (users: Users[]) => { for (...) {...} }: the bios it uploads
onRightUsers(users, up) == UploadBios(users, up)

\* fa.type === 'Left' ? onLeft(fa.left) : onRight(fa.right): the handler
\* call that fold makes.
foldEither(fa, onLeft, onRight) ==
    IF fa.type = "Left" THEN Call(onLeft, <<fa.left>>)
    ELSE Call(onRight, <<fa.right>>)

\* usersTaskEither(): the task calls f, which returns a pending promise.
RunTask ==
    /\ tpc = "start"
    /\ fPromise' = PendingPromise
    /\ taskPromise' = PendingPromise
    /\ tpc' = "await"
    /\ UNCHANGED <<usersEither, teResult, teUploaded, configVars, optionVars, routerVars>>

\* usersTaskEither() when f throws instead of returning a promise: the error
\* is not caught by the wrapper and reaches the caller.
RunTaskThrows(e) ==
    /\ tpc = "start"
    /\ tpc' = "threw"
    /\ teResult' = e
    /\ UNCHANGED <<fPromise, taskPromise, usersEither, teUploaded,
                   configVars, optionVars, routerVars>>

\* The promise returned by f fulfils with the users b.
FFulfils(b) ==
    /\ fPromise.state = "pending"
    /\ fPromise' = Fulfilled(b)
    /\ UNCHANGED <<tpc, taskPromise, usersEither, teResult, teUploaded,
                   configVars, optionVars, routerVars>>

\* The promise returned by f rejects with reason r.
FRejects(r) ==
    /\ fPromise.state = "pending"
    /\ fPromise' = Rejected(r)
    /\ UNCHANGED <<tpc, taskPromise, usersEither, teResult, teUploaded,
                   configVars, optionVars, routerVars>>

\* The reaction that tryCatchK attached to f's promise runs.
SettleTask ==
    /\ fPromise.state \in {"fulfilled", "rejected"}
    /\ taskPromise.state = "pending"
    /\ taskPromise' = tryCatchK(fPromise, onRejectedString)
    /\ UNCHANGED <<tpc, fPromise, usersEither, teResult, teUploaded,
                   configVars, optionVars, routerVars>>

\* const usersEither = await usersTaskEither(), outside any try block: a
\* rejected promise makes the await throw.
AwaitTask ==
    /\ tpc = "await"
    /\ taskPromise.state \in {"fulfilled", "rejected"}
    /\ IF taskPromise.state = "fulfilled"
       THEN /\ usersEither' = taskPromise.value
            /\ tpc' = "fold"
            /\ UNCHANGED teResult
       ELSE /\ tpc' = "threw"
            /\ teResult' = taskPromise.value
            /\ UNCHANGED usersEither
    /\ UNCHANGED <<fPromise, taskPromise, teUploaded, configVars, optionVars, routerVars>>

\* fold(usersEither, (error) => ..., (users) => {...})
FoldEither ==
    /\ tpc = "fold"
    /\ LET call == foldEither(usersEither, "onLeft", "onRight")
       IN  IF call.handler = "onLeft"
           THEN /\ teResult' = onLeftMessage(call.args[1])
                /\ UNCHANGED teUploaded
           ELSE /\ teResult' = Undefined
                /\ teUploaded' = onRightUsers(call.args[1], teUploaded)
    /\ tpc' = "done"
    /\ UNCHANGED <<fPromise, taskPromise, usersEither, configVars, optionVars, routerVars>>

InitTask ==
    /\ IdleConfig
    /\ IdleOption
    /\ IdleTask
    /\ IdleRouter

NextTask ==
    \/ RunTask
    \/ \E e \in Thrown : RunTaskThrows(e)
    \/ \E b \in UserLists : FFulfils(b)
    \/ \E r \in Reasons : FRejects(r)
    \/ SettleTask
    \/ AwaitTask
    \/ FoldEither

SpecTask == InitTask /\ [][NextTask]_vars

\* C9: the promise of a TaskEither built by tryCatchK never rejects: when
\* the promise returned by f fulfils with b it resolves to Right(b), when it
\* rejects with r it resolves to Left(onRejected(r)), and in both cases the
\* await of the caller does not throw.
TaskEitherNeverRejects ==
    /\ taskPromise.state # "rejected"
    /\ taskPromise.state = "fulfilled" =>
           /\ fPromise.state = "fulfilled" =>
                  taskPromise.value = [type |-> "Right", right |-> fPromise.value]
           /\ fPromise.state = "rejected" =>
                  taskPromise.value =
                      [type |-> "Left", left |-> StringOfNumber(fPromise.value)]
    /\ fPromise.state \in {"fulfilled", "rejected"} => tpc # "threw"
    /\ tpc \in {"fold", "done"} => usersEither = taskPromise.value

RejectionAwaitedAsLeft ==
    /\ tpc = "done"
    /\ fPromise = Rejected(404)
    /\ usersEither = [type |-> "Left", left |-> <<"4", "0", "4">>]
    /\ teResult = <<"Something went wrong ", "4", "0", "4", "!">>

(***************************************************************************)
(* Router example (first post)                                             *)
(***************************************************************************)

\* Largest number of '/'-separated segments of an explored path.
MaxSegs == 4

\* Segment texts, as sequences of characters.
homeText == <<"h", "o", "m", "e">>
usersText == <<"u", "s", "e", "r", "s">>
invoiceText == <<"i", "n", "v", "o", "i", "c", "e">>
fooText == <<"f", "o", "o">>

\* Integers that occur in explored paths.
RouteInts == {-1, 1, 12}

\* String(n) for an integer n.
DecimalText(n) ==
    IF n < 0 THEN <<"-">> \o StringOfNumber(-n) ELSE StringOfNumber(n)

\* The segments explored paths are made of: the literals of the routes, a
\* literal of no route, integers, non-integers and the empty segment.
Segments ==
    {homeText, usersText, invoiceText, fooText}
        \cup {DecimalText(n) : n \in RouteInts}
        \cup {<<"1", ".", "5">>, <<"x">>, << >>}

RECURSIVE JoinPath(_)
\* The path with the given segments: each one preceded by '/'.
JoinPath(segs) ==
    IF segs = << >> THEN << >>
    ELSE <<"/">> \o Head(segs) \o JoinPath(Tail(segs))

\* The explored inputs of parseLocation: '/' and every path of 1..MaxSegs
\* segments.
Paths ==
    {<<"/">>} \cup
    {JoinPath(segs) : segs \in UNION {[1..n -> Segments] : n \in 1..MaxSegs}}

\* Locations
home == [_tag |-> "Home"]

user(id) == [_tag |-> "User", id |-> id]

invoice(userId, invoiceId) ==
    [_tag |-> "Invoice", userId |-> userId, invoiceId |-> invoiceId]

notFound == [_tag |-> "NotFound"]

Location ==
    {home, notFound}
        \cup {user(n) : n \in Int}
        \cup {invoice(n, m) : n, m \in Int}

RECURSIVE SplitSlash(_, _, _)
\* s.split('/'): acc holds the finished pieces, cur the piece being read.
SplitSlash(s, cur, acc) ==
    IF s = << >> THEN Append(acc, cur)
    ELSE IF Head(s) = "/"
         THEN SplitSlash(Tail(s), << >>, Append(acc, cur))
         ELSE SplitSlash(Tail(s), Append(cur, Head(s)), acc)

\* Route.parse(s): the non-empty pieces of the path between its slashes.
RouteParse(s) ==
    SelectSeq(SplitSlash(s, << >>, << >>), LAMBDA piece : piece # << >>)

DigitValue(c) == CHOOSE d \in 0..9 : DigitChars[d + 1] = c

IsDigit(c) == \E d \in 0..9 : DigitChars[d + 1] = c

RECURSIVE DigitsValue(_, _)
DigitsValue(s, acc) ==
    IF s = << >> THEN acc
    ELSE DigitsValue(Tail(s), 10 * acc + DigitValue(Head(s)))

AllDigits(s) == s # << >> /\ \A i \in 1..Len(s) : IsDigit(s[i])

\* The decoder behind int(k): the number a segment of an optional '-' and
\* decimal digits denotes; every other explored segment is no integer.
IntegerFromString(s) ==
    IF AllDigits(s) THEN [ok |-> TRUE, n |-> DigitsValue(s, 0)]
    ELSE IF s # << >> /\ Head(s) = "-" /\ AllDigits(Tail(s))
         THEN [ok |-> TRUE, n |-> 0 - DigitsValue(Tail(s), 0)]
         ELSE [ok |-> FALSE, n |-> 0]

\* Matchers are the sequence of their steps; then() appends.
end == << [kind |-> "end", arg |-> << >>] >>

lit(literal) == << [kind |-> "lit", arg |-> literal] >>

int(k) == << [kind |-> "int", arg |-> k] >>

then(m1, m2) == m1 \o m2

NoMatch == [matched |-> FALSE, params |-> EmptyObject]

RECURSIVE RunMatch(_, _, _)
\* The parser of a matcher on the parts of a route: whether every step
\* matches, and the parameters the int steps collected.
RunMatch(m, parts, params) ==
    IF m = << >> THEN [matched |-> TRUE, params |-> params]
    ELSE LET step == Head(m)
         IN  CASE step.kind = "end" ->
                    IF parts = << >> THEN RunMatch(Tail(m), parts, params)
                    ELSE NoMatch
               [] step.kind = "lit" ->
                    IF parts # << >> /\ Head(parts) = step.arg
                    THEN RunMatch(Tail(m), Tail(parts), params)
                    ELSE NoMatch
               [] step.kind = "int" ->
                    IF parts = << >> THEN NoMatch
                    ELSE LET d == IntegerFromString(Head(parts))
                         IN  IF d.ok
                             THEN RunMatch(Tail(m), Tail(parts),
                                           (step.arg :> d.n) @@ params)
                             ELSE NoMatch

\* matches (2)
defaults == end

homeMatch == then(lit(homeText), end)

userIdMatch == then(lit(usersText), int("userId"))

userMatchOpen == userIdMatch

userMatch == then(userIdMatch, end)

invoiceMatch ==
    then(then(then(userIdMatch, lit(invoiceText)), int("invoiceId")), end)

\* router (3): the alternatives in the order of the alt() calls; each is a
\* matcher and the tag of the Location its map() builds.
router ==
    << [match |-> defaults,     to |-> "Home"],
       [match |-> homeMatch,    to |-> "Home"],
       [match |-> userMatch,    to |-> "User"],
       [match |-> invoiceMatch, to |-> "Invoice"] >>

\* The functions given to map().
MapTo(to, params) ==
    CASE to = "Home"    -> home
      [] to = "User"    -> user(params["userId"])
      [] to = "Invoice" -> invoice(params["userId"], params["invoiceId"])

RECURSIVE parse(_, _, _)
\* parse(router, route, a): the Location of the first alternative that
\* matches, a when none does (zero() matches nothing).
parse(alts, r, a) ==
    IF alts = << >> THEN a
    ELSE LET res == RunMatch(Head(alts).match, r, EmptyObject)
         IN  IF res.matched THEN MapTo(Head(alts).to, res.params)
             ELSE parse(Tail(alts), r, a)

parseLocation(s) == parse(router, RouteParse(s), notFound)

\* A call parseLocation(s).
ParseLocation(s) ==
    /\ rpc = "start"
    /\ path' = s
    /\ location' = parseLocation(s)
    /\ rpc' = "done"
    /\ UNCHANGED <<configVars, optionVars, taskVars>>

InitRouter ==
    /\ IdleConfig
    /\ IdleOption
    /\ IdleTask
    /\ IdleRouter

\* The script calls parseLocation once, on any explored path.
NextRouter == rpc = "start" /\ \E s \in Paths : ParseLocation(s)

SpecRouter == InitRouter /\ [][NextRouter]_vars

\* '/users/<n>'
UserPath(n) == <<"/">> \o usersText \o <<"/">> \o DecimalText(n)

\* '/users/<n>/invoice/<m>'
InvoicePath(n, m) ==
    UserPath(n) \o <<"/">> \o invoiceText \o <<"/">> \o DecimalText(m)

\* The explored paths that some alternative of the router is written for.
RoutedPaths ==
    {<<"/">>, <<"/">> \o homeText}
        \cup {UserPath(n) : n \in RouteInts}
        \cup {InvoicePath(n, m) : n, m \in RouteInts}

\* The path has no trailing and no doubled slash.
PlainPath(s) ==
    \A i \in 1..Len(s) : s[i] = "/" => (i < Len(s) /\ s[i + 1] # "/")

\* C7: parseLocation gives Home for '/' and '/home', User n for
\* '/users/<n>', Invoice n m for '/users/<n>/invoice/<m>', for all integers
\* n and m, and NotFound for a path that no alternative matches, as '/foo'.
ParseLocationRoutes ==
    rpc = "done" =>
        /\ path = <<"/">> => location = [_tag |-> "Home"]
        /\ path = <<"/">> \o homeText => location = [_tag |-> "Home"]
        /\ \A n \in RouteInts :
               path = UserPath(n) => location = [_tag |-> "User", id |-> n]
        /\ \A n, m \in RouteInts :
               path = InvoicePath(n, m) =>
                   location = [_tag |-> "Invoice", userId |-> n, invoiceId |-> m]
        /\ path = <<"/">> \o fooText => location = [_tag |-> "NotFound"]
        /\ (PlainPath(path) /\ path \notin RoutedPaths) =>
               location = [_tag |-> "NotFound"]

InvoiceParsed ==
    /\ rpc = "done"
    /\ path = InvoicePath(-1, 12)
    /\ location = [_tag |-> "Invoice", userId |-> -1, invoiceId |-> 12]

====
